---- MODULE Spec2Model ----
(***************************************************************************)
(* ATHENA backend: the LATS engine (backend/app/services/lats_engine.py),  *)
(* the pipeline orchestrator (pipeline_orchestrator.py) and the in-memory  *)
(* job store with its pipeline runner (job_store.py).                      *)
(*                                                                         *)
(* One LATSEngine.search invocation is modelled as a coroutine with a      *)
(* program counter; agent_fn / value_fn / reflect_fn calls are calls in    *)
(* flight that the environment completes (return or raise).  Scores are    *)
(* fixed-point numbers in units of 1e-5, so 1.0 is 100000 and round(s, 4)  *)
(* is rounding to a multiple of 10.                                        *)
(*                                                                         *)
(* Each part has its own specification over the same variables: Spec and   *)
(* TraceSpec for the engine, OrchSpec for the orchestrator, CapSpec and    *)
(* PipeSpec for the job store, UcbSpec for TreeNode.ucb1, RetrySpec for     *)
(* deploy_ai_client._request_with_retry.  A specification leaves the       *)
(* variables of the other parts at their idle values.                      *)
(***************************************************************************)
EXTENDS Integers, Sequences, FiniteSets, TLC

\* ------------------------------------------------------------------ bounds
MaxN == 3          \* largest n_candidates explored
MaxDepth == 3      \* largest max_depth explored
MaxAdds == 3       \* longest add_node call sequence of TraceSpec
MaxAgentCalls == 7 \* most agent_fn calls one explored search can issue

\* ------------------------------------------------------- program constants
ScoreOne == 100000           \* 1.0, upper clamp of _safe_score
ScoreZero == 0               \* 0.0, lower clamp of _safe_score
NeutralScore == 50000        \* 0.5, _safe_score fallback
DefaultThreshold == 65000    \* 0.65, default quality_threshold

NoneV == "None"
ExceptionV == "Exception"    \* an exception object held as a value
FallbackReflection == "Improve comprehensiveness and accuracy of the analysis."

\* -------------------------------------------------- inputs (small domains)
\* Candidates an agent_fn call can return; a candidate is opaque to the
\* engine, only value_fn looks at it.
Candidates == {"cErr", "cLow", "cMid", "cHigh"}
\* Critique texts a reflect_fn call can return.
ReflectionTexts == {"r1"}
\* quality_threshold values explored: 0.5 (the fallback score sits exactly
\* on it) and the default 0.65.
Thresholds == {NeutralScore, DefaultThreshold}
\* Scores handed to SearchTrace.add_node when it is exercised on its own.
AddScores == {0 - 20000, 0, 64996, 70004, 150000}

initial_prompt == <<"P">>

\* The caller-supplied value function: raises on cErr, returns an
\* under-range, an in-range and an over-range number on the others.
value_fn(c) ==
  CASE c = "cErr"  -> [raised |-> TRUE,  val |-> 0]
    [] c = "cLow"  -> [raised |-> FALSE, val |-> 0 - 20000]
    [] c = "cMid"  -> [raised |-> FALSE, val |-> 70004]
    [] c = "cHigh" -> [raised |-> FALSE, val |-> 150000]
    [] OTHER       -> [raised |-> TRUE,  val |-> 0]

VARIABLES
  self,          \* the engine's configuration fields
  pc,            \* position of the search coroutine
  depth,         \* depth of the current expansion round
  n,             \* _expand's parameter n for the current round
  tasks,         \* agent_fn calls issued by the current _expand
  order,         \* indices of tasks in completion order
  results,       \* results / refined: surviving candidates of the round
  idx,           \* enumerate index of the scoring loop (0-based)
  best_node,     \* id of best_node in tree, 0 for None
  reflection,    \* local variable reflection
  improved_prompt,
  vcall,         \* the value_fn call the loop awaits
  rcall,         \* the reflect_fn call the loop awaits
  inflight,      \* numbers of value_fn / reflect_fn calls in flight
  calls,         \* numbers of agent_fn / value_fn / reflect_fn calls issued,
                 \* and of depth-1 agent_fn calls that returned a candidate
  tree,          \* TreeNode arena, tree[1] is root
  trace,         \* the SearchTrace
  seen,          \* scores passed to add_node so far, unrounded
  ret,           \* what search returned
  exit_kind,     \* which return statement was taken
  orchestrator,  \* the LATSPipelineOrchestrator object shared by its runs
  runs,          \* the invocations of LATSPipelineOrchestrator.run
  _jobs,         \* job_store._jobs, in dict insertion order
  _locks,        \* job ids that have an entry in job_store._locks
  clock,         \* datetime.now(timezone.utc), in minutes
  uuids,         \* number of uuid.uuid4() calls made by create_job
  invocations,   \* the invocations of run_real_pipeline
  ucb_node,      \* the TreeNode TreeNode.ucb1 is called on
  ucb_ret,       \* what TreeNode.ucb1 returned
  request,       \* the arguments of a _request_with_retry call
  retry_pc,      \* position of the _request_with_retry coroutine
  attempt,       \* its loop variable attempt
  last_exc,      \* its local variable last_exc
  sleeps,        \* the delays it has passed to asyncio.sleep, in order
  retry_ret      \* what it returned or raised

\* variables of the search coroutine, of the orchestrator, of the job store
\* and of the ucb1 call
searchVars == <<self, pc, depth, n, tasks, order, results, idx, best_node,
                reflection, improved_prompt, vcall, rcall, inflight, calls,
                tree, trace, seen, ret, exit_kind>>
orchVars == <<orchestrator, runs>>
storeVars == <<_jobs, _locks, clock, uuids, invocations>>
ucbVars == <<ucb_node, ucb_ret>>
retryVars == <<request, retry_pc, attempt, last_exc, sleeps, retry_ret>>

vars == <<searchVars, orchVars, storeVars, ucbVars, retryVars>>

\* ------------------------------------------------------------- helpers
Max2(a, b) == IF a >= b THEN a ELSE b
Min2(a, b) == IF a <= b THEN a ELSE b

RECURSIVE SeqMax(_)
SeqMax(s) == IF s = <<>> THEN 0 ELSE Max2(s[Len(s)], SeqMax(SubSeq(s, 1, Len(s) - 1)))

\* round(score, 4), ties to even
Round4(x) ==
  LET q == x \div 10
      r == x % 10
  IN  IF r < 5 THEN 10 * q
      ELSE IF r > 5 THEN 10 * (q + 1)
      ELSE IF q % 2 = 0 THEN 10 * q ELSE 10 * (q + 1)

\* ------------------------------------------------------------ TreeNode
TreeNode(state, parent, d, score) ==
  [state |-> state, parent |-> parent, children |-> <<>>,
   visits |-> 1, value |-> score, score |-> score,
   reflection |-> "", depth |-> d]

RootNode ==
  [state |-> NoneV, parent |-> 0, children |-> <<>>,
   visits |-> 0, value |-> 0, score |-> 0,
   reflection |-> "", depth |-> 0]

\* ---------------------------------------------------------- SearchTrace
NewTrace ==
  [total_candidates |-> 0, best_score |-> 0,
   reflection_triggered |-> FALSE, nodes |-> <<>>]

add_node_last(t, d, candidate_idx, score, kwargs) ==
  [t EXCEPT
     !.nodes = Append(@, [depth |-> d, candidate |-> candidate_idx,
                          score |-> Round4(score), kwargs |-> kwargs]),
     !.total_candidates = @ + 1,
     !.best_score = score]

add_node(t, d, candidate_idx, score, kwargs) ==
  [t EXCEPT
     !.nodes = Append(@, [depth |-> d, candidate |-> candidate_idx,
                          score |-> Round4(score), kwargs |-> kwargs]),
     !.total_candidates = @ + 1,
     !.best_score = IF score > @ THEN score ELSE @]

\* ------------------------------------------------------ private helpers
_safe_call_propagate(outcome) ==
  IF outcome.raised THEN ExceptionV ELSE outcome.val

_safe_call(outcome) ==
  IF outcome.raised THEN NoneV ELSE outcome.val

\* value_fn's result returned as it came, without the clamp
_safe_score_unclamped(outcome) ==
  IF outcome.raised THEN NeutralScore ELSE outcome.val

_safe_score(outcome) ==
  IF outcome.raised THEN NeutralScore
  ELSE Max2(ScoreZero, Min2(ScoreOne, outcome.val))

_safe_reflect(outcome) ==
  IF outcome.raised THEN FallbackReflection ELSE outcome.val

_build_improved_prompt(original_prompt, refl) ==
  original_prompt \o
  << "\n\n---\n## Quality Feedback from previous attempt:\n",
     refl,
     "\n\nPlease address the above feedback to produce a higher-quality analysis." >>

\* the update applied to the start node only, the walk to the root left out
_backpropagate_node_only(t, node, value) ==
  IF node = 0 THEN t
  ELSE [t EXCEPT ![node].visits = @ + 1, ![node].value = @ + value]

RECURSIVE _backpropagate(_, _, _)
_backpropagate(t, node, value) ==
  IF node = 0 THEN t
  ELSE _backpropagate(
         [t EXCEPT ![node].visits = @ + 1, ![node].value = @ + value],
         t[node].parent, value)

\* --------------------------------------------------------------- _expand
NewTask(p) == [prompt |-> p, status |-> "inflight", result |-> NoneV]

\* tasks created when _expand is entered: all n under gather, the first
\* one only in the sequential loop
IssueTasks(p, k) ==
  IF self.concurrent_expand THEN [i \in 1..k |-> NewTask(p)]
  ELSE << NewTask(p) >>

AllDone(ts) == \A i \in 1..Len(ts) : ts[i].status = "done"

GatherReadyFirst(ts) == \E i \in 1..Len(ts) : ts[i].status = "done"

\* asyncio.gather resumes its awaiter once every task has finished
GatherReady(ts) == AllDone(ts)

GatherCompletionOrder(ts, ord) == [k \in 1..Len(ord) |-> ts[ord[k]].result]

\* asyncio.gather returns the results in the order the awaitables were given
Gather(ts, ord) == [i \in 1..Len(ts) |-> ts[i].result]

IsCandidate(r) == r # NoneV /\ r # ExceptionV

FilterResults(rs) == SelectSeq(rs, IsCandidate)

StillInFlight(t) == t.status = "inflight"

\* ----------------------------------------------------------- search loop
AwaitedNever(call) == TRUE

\* an await resumes only once the awaited call has finished
Awaited(call) == call.status = "done"

EarlyExitStrict(score) == score > self.quality_threshold

EarlyExitDeferred(score) ==
  score >= self.quality_threshold /\ idx + 1 = Len(results)

\* if score >= self.quality_threshold, checked in each loop iteration
EarlyExit(score) == score >= self.quality_threshold

HasNextDepthShort(d) == d + 1 < self.max_depth

\* for depth in range(2, self.max_depth + 1)
HasNextDepth(d) == d + 1 <= self.max_depth

ReflectionPromptBasePrev == IF depth = 1 THEN initial_prompt ELSE improved_prompt

\* the prompt the reflection feedback is appended to
ReflectionPromptBase == initial_prompt

\* the round asking for as many candidates as depth 1 did
RefinedCountFull == Max2(2, self.n_candidates)

RefinedCount == Max2(2, self.n_candidates - 1)

CandidateIdxZeroBased(i) == i

\* enumerate index to 1-based candidate number
CandidateIdx(i) == i + 1

IdleCall == [status |-> "idle", arg |-> NoneV, outcome |-> [raised |-> FALSE, val |-> NoneV]]

\* agent_fn calls of a search that never exits early
AgentCallBudget(c) ==
  c.n_candidates + (c.max_depth - 1) * Max2(2, c.n_candidates - 1)

Configs ==
  { c \in [n_candidates : 1..MaxN, max_depth : 1..MaxDepth,
           quality_threshold : Thresholds, concurrent_expand : BOOLEAN] :
      AgentCallBudget(c) <= MaxAgentCalls }

\* no orchestrator has been constructed
OrchIdle ==
  /\ orchestrator = NoneV
  /\ runs = <<>>

\* job_store as imported: _jobs and _locks are empty dicts
StoreIdle ==
  /\ _jobs = <<>>
  /\ _locks = {}
  /\ clock = 0
  /\ uuids = 0
  /\ invocations = <<>>

\* no ucb1 call has been made
UcbIdle ==
  /\ ucb_node = NoneV
  /\ ucb_ret = NoneV

\* no _request_with_retry call has been made
RetryIdle ==
  /\ request = NoneV
  /\ retry_pc = "idle"
  /\ attempt = 0
  /\ last_exc = NoneV
  /\ sleeps = <<>>
  /\ retry_ret = NoneV

InitLocals ==
  /\ depth = 0
  /\ n = 0
  /\ tasks = <<>>
  /\ order = <<>>
  /\ results = <<>>
  /\ idx = 0
  /\ best_node = 0
  /\ reflection = ""
  /\ improved_prompt = <<>>
  /\ vcall = IdleCall
  /\ rcall = IdleCall
  /\ inflight = [value |-> 0, reflect |-> 0]
  /\ calls = [agent |-> 0, value |-> 0, reflect |-> 0, candidates1 |-> 0]
  /\ tree = << RootNode >>
  /\ trace = NewTrace
  /\ seen = <<>>
  /\ ret = [result |-> NoneV, score |-> 0]
  /\ exit_kind = "none"

Init ==
  /\ self \in Configs
  /\ pc = "start"
  /\ InitLocals
  /\ OrchIdle
  /\ StoreIdle
  /\ UcbIdle
  /\ RetryIdle

\* search, lines 154-165: trace, root and the depth-1 _expand call
SearchStart ==
  /\ pc = "start"
  /\ pc' = "expand"
  /\ depth' = 1
  /\ n' = self.n_candidates
  /\ tasks' = IssueTasks(initial_prompt, self.n_candidates)
  /\ order' = <<>>
  /\ calls' = [calls EXCEPT !.agent = @ + Len(tasks')]
  /\ UNCHANGED <<orchVars, storeVars, ucbVars, retryVars, self, results, idx, best_node, reflection, improved_prompt,
                 vcall, rcall, inflight, tree, trace, seen, ret, exit_kind>>

CompleteTask(i, outcome) ==
  /\ i \in 1..Len(tasks)
  /\ tasks[i].status = "inflight"
  /\ tasks' = [tasks EXCEPT ![i].status = "done",
                            ![i].result = _safe_call(outcome)]
  /\ order' = Append(order, i)
  /\ calls' = IF depth = 1 /\ ~outcome.raised /\ outcome.val # NoneV
              THEN [calls EXCEPT !.candidates1 = @ + 1]
              ELSE calls
  /\ UNCHANGED <<orchVars, storeVars, ucbVars, retryVars, self, pc, depth, n, results, idx, best_node, reflection,
                 improved_prompt, vcall, rcall, inflight, tree, trace,
                 seen, ret, exit_kind>>

\* an agent_fn call returns a candidate or None
AgentReturn(i, c) == CompleteTask(i, [raised |-> FALSE, val |-> c])

\* an agent_fn call raises
AgentRaise(i) == CompleteTask(i, [raised |-> TRUE, val |-> NoneV])

\* _expand, sequential branch: the awaited call finished, issue the next
ExpandNext ==
  /\ pc = "expand"
  /\ ~self.concurrent_expand
  /\ tasks # <<>>
  /\ Len(tasks) < n
  /\ tasks[Len(tasks)].status = "done"
  /\ IF tasks[Len(tasks)].result = ExceptionV
     THEN /\ pc' = "raised"
          /\ UNCHANGED <<tasks, calls>>
     ELSE /\ pc' = pc
          /\ tasks' = Append(tasks, NewTask(tasks[1].prompt))
          /\ calls' = [calls EXCEPT !.agent = @ + 1]
  /\ UNCHANGED <<orchVars, storeVars, ucbVars, retryVars, self, depth, n, order, results, idx, best_node, reflection,
                 improved_prompt, vcall, rcall, inflight, tree, trace, seen,
                 ret, exit_kind>>

\* _expand returns: the results are collected and filtered, the scoring
\* loop of the round starts
ExpandReturn ==
  /\ pc = "expand"
  /\ tasks # <<>>
  /\ IF self.concurrent_expand
     THEN GatherReady(tasks)
     ELSE Len(tasks) = n /\ tasks[Len(tasks)].status = "done"
  /\ LET collected == IF self.concurrent_expand
                      THEN Gather(tasks, order)
                      ELSE [i \in 1..Len(tasks) |-> tasks[i].result]
         propagates == ~self.concurrent_expand
                       /\ tasks[Len(tasks)].result = ExceptionV
         rs == FilterResults(collected)
     IN  /\ results' = rs
         /\ pc' = IF propagates THEN "raised"
                  ELSE IF rs = <<>> THEN "loop" ELSE "score"
  /\ idx' = 0
  /\ tasks' = SelectSeq(tasks, StillInFlight)
  /\ order' = <<>>
  /\ UNCHANGED <<orchVars, storeVars, ucbVars, retryVars, self, depth, n, best_node, reflection, improved_prompt,
                 vcall, rcall, inflight, calls, tree, trace, seen, ret,
                 exit_kind>>

\* the loop calls value_fn on the next surviving candidate (_safe_score)
ScoreIssue ==
  /\ pc = "score"
  /\ idx < Len(results)
  /\ pc' = "value"
  /\ vcall' = [status |-> "inflight", arg |-> results[idx + 1],
               outcome |-> value_fn(results[idx + 1])]
  /\ inflight' = [inflight EXCEPT !.value = @ + 1]
  /\ calls' = [calls EXCEPT !.value = @ + 1]
  /\ UNCHANGED <<orchVars, storeVars, ucbVars, retryVars, self, depth, n, tasks, order, results, idx, best_node,
                 reflection, improved_prompt, rcall, tree, trace, seen, ret,
                 exit_kind>>

CompleteValue(raised) ==
  /\ vcall.status = "inflight"
  /\ vcall.outcome.raised = raised
  /\ vcall' = [vcall EXCEPT !.status = "done"]
  /\ inflight' = [inflight EXCEPT !.value = @ - 1]
  /\ UNCHANGED <<orchVars, storeVars, ucbVars, retryVars, self, pc, depth, n, tasks, order, results, idx, best_node,
                 reflection, improved_prompt, rcall, calls, tree, trace, seen,
                 ret, exit_kind>>

\* the value_fn call in flight returns a number
ValueReturn == CompleteValue(FALSE)

\* the value_fn call in flight raises
ValueRaise == CompleteValue(TRUE)

\* score = await self._safe_score(value_fn, result)
LoopScore == _safe_score(vcall.outcome)

\* One iteration of a scoring loop after its value_fn call: node creation,
\* trace entry, best_node update and the early-exit check.
LoopBody(parent, score, kwargs, better) ==
  LET result == results[idx + 1]
      node == Len(tree) + 1
      grown == Append([tree EXCEPT ![parent].children = Append(@, node)],
                      TreeNode(result, parent, depth, score))
  IN  /\ trace' = add_node(trace, depth, CandidateIdx(idx), score, kwargs)
      /\ seen' = Append(seen, score)
      /\ best_node' = IF better THEN node ELSE best_node
      /\ vcall' = IdleCall
      /\ IF EarlyExit(score)
         THEN /\ tree' = _backpropagate(grown, node, score)
              /\ ret' = [result |-> result, score |-> score]
              /\ pc' = "done"
              /\ exit_kind' = "early"
              /\ idx' = idx
         ELSE /\ tree' = grown
              /\ idx' = idx + 1
              /\ pc' = IF idx + 1 < Len(results) THEN "score" ELSE "loop"
              /\ UNCHANGED <<ret, exit_kind>>
      /\ UNCHANGED <<orchVars, storeVars, ucbVars, retryVars, self, depth, n, tasks, order, results, reflection,
                     improved_prompt, rcall, inflight, calls>>

Depth1Kwargs(score) == [early_exit |-> score >= self.quality_threshold]

Depth1Better(score) == best_node = 0 \/ score > tree[best_node].score

\* search, lines 167-186: body of the depth-1 loop
ScoreDepth1 ==
  /\ pc = "value"
  /\ depth = 1
  /\ Awaited(vcall)
  /\ LoopBody(1, LoopScore, Depth1Kwargs(LoopScore), Depth1Better(LoopScore))

RefinedKwargs(score) == [reflection_applied |-> TRUE]

\* the comparison of line 221 turned round
RefinedBetterInverted(score) == score < tree[best_node].score

RefinedBetter(score) == score > tree[best_node].score

\* search, lines 207-227: body of the loop over refined candidates
ScoreRefined ==
  /\ pc = "value"
  /\ depth >= 2
  /\ Awaited(vcall)
  /\ LoopBody(best_node, LoopScore, RefinedKwargs(LoopScore), RefinedBetter(LoopScore))

\* search, lines 189-193: next reflection round, reflect_fn is called
ReflectIssue ==
  /\ pc = "loop"
  /\ HasNextDepth(depth)
  /\ best_node # 0
  /\ pc' = "reflect"
  /\ depth' = depth + 1
  /\ rcall' = [status |-> "inflight", arg |-> tree[best_node].state,
               outcome |-> [raised |-> FALSE, val |-> NoneV]]
  /\ inflight' = [inflight EXCEPT !.reflect = @ + 1]
  /\ calls' = [calls EXCEPT !.reflect = @ + 1]
  /\ UNCHANGED <<orchVars, storeVars, ucbVars, retryVars, self, n, tasks, order, results, idx, best_node, reflection,
                 improved_prompt, vcall, tree, trace, seen, ret, exit_kind>>

CompleteReflect(outcome) ==
  /\ rcall.status = "inflight"
  /\ rcall' = [rcall EXCEPT !.status = "done", !.outcome = outcome]
  /\ inflight' = [inflight EXCEPT !.reflect = @ - 1]
  /\ UNCHANGED <<orchVars, storeVars, ucbVars, retryVars, self, pc, depth, n, tasks, order, results, idx, best_node,
                 reflection, improved_prompt, vcall, calls, tree, trace, seen,
                 ret, exit_kind>>

\* the reflect_fn call in flight returns a critique
ReflectReturn(text) == CompleteReflect([raised |-> FALSE, val |-> text])

\* the reflect_fn call in flight raises
ReflectRaise == CompleteReflect([raised |-> TRUE, val |-> NoneV])

\* search, lines 193-205: the reflection is stored, the improved prompt is
\* built and the round's _expand call is made
ReflectResume ==
  /\ pc = "reflect"
  /\ Awaited(rcall)
  /\ LET refl == _safe_reflect(rcall.outcome)
         p == _build_improved_prompt(ReflectionPromptBase, refl)
     IN  /\ reflection' = refl
         /\ tree' = [tree EXCEPT ![best_node].reflection = refl]
         /\ trace' = [trace EXCEPT !.reflection_triggered = TRUE]
         /\ improved_prompt' = p
         /\ n' = RefinedCount
         /\ tasks' = IssueTasks(p, RefinedCount)
  /\ order' = <<>>
  /\ calls' = [calls EXCEPT !.agent = @ + Len(tasks')]
  /\ rcall' = IdleCall
  /\ pc' = "expand"
  /\ UNCHANGED <<orchVars, storeVars, ucbVars, retryVars, self, depth, results, idx, best_node, vcall, inflight, seen,
                 ret, exit_kind>>

\* search, lines 229-241: no early exit, the best node found is returned
ReturnBest ==
  /\ pc = "loop"
  /\ ~(HasNextDepth(depth) /\ best_node # 0)
  /\ pc' = "done"
  /\ exit_kind' = "final"
  /\ ret' = IF best_node # 0
            THEN [result |-> tree[best_node].state, score |-> tree[best_node].score]
            ELSE [result |-> NoneV, score |-> 0]
  /\ tree' = IF best_node # 0
             THEN _backpropagate(tree, best_node, tree[best_node].score)
             ELSE tree
  /\ UNCHANGED <<orchVars, storeVars, ucbVars, retryVars, self, depth, n, tasks, order, results, idx, best_node,
                 reflection, improved_prompt, vcall, rcall, inflight, calls,
                 trace, seen>>

Next ==
  \/ SearchStart
  \/ \E i \in 1..Len(tasks), c \in Candidates \cup {NoneV} : AgentReturn(i, c)
  \/ \E i \in 1..Len(tasks) : AgentRaise(i)
  \/ ExpandNext
  \/ ExpandReturn
  \/ ScoreIssue
  \/ ValueReturn
  \/ ValueRaise
  \/ ScoreDepth1
  \/ ScoreRefined
  \/ ReflectIssue
  \/ \E text \in ReflectionTexts : ReflectReturn(text)
  \/ ReflectRaise
  \/ ReflectResume
  \/ ReturnBest

Spec == Init /\ [][Next]_vars

\* ------------------------------------------- SearchTrace exercised alone
TraceConfig ==
  [n_candidates |-> 1, max_depth |-> 1,
   quality_threshold |-> DefaultThreshold, concurrent_expand |-> TRUE]

TraceInit ==
  /\ self = TraceConfig
  /\ pc = "trace"
  /\ InitLocals
  /\ OrchIdle
  /\ StoreIdle
  /\ UcbIdle
  /\ RetryIdle

\* one call trace.add_node(d, i, score, reflection_applied=True)
AddNodeCall(d, i, score) ==
  /\ pc = "trace"
  /\ Len(seen) < MaxAdds
  /\ trace' = add_node(trace, d, i, score, [reflection_applied |-> TRUE])
  /\ seen' = Append(seen, score)
  /\ UNCHANGED <<orchVars, storeVars, ucbVars, retryVars, self, pc, depth, n, tasks, order, results, idx, best_node,
                 reflection, improved_prompt, vcall, rcall, inflight, calls,
                 tree, ret, exit_kind>>

TraceNext ==
  \E d \in 1..2, i \in 1..2, score \in AddScores :
    AddNodeCall(d, i, score)

TraceSpec == TraceInit /\ [][TraceNext]_vars

\* ------------------------------------------------------------------------
\* Properties
\* ------------------------------------------------------------------------
Threshold == self.quality_threshold

ScoreOf(c) == IF value_fn(c).raised THEN NeutralScore
              ELSE IF value_fn(c).val < 0 THEN 0
              ELSE IF value_fn(c).val > ScoreOne THEN ScoreOne
              ELSE value_fn(c).val

Crossing(rs) == { k \in 1..Len(rs) : ScoreOf(rs[k]) >= Threshold }

\* position of the first candidate of rs whose clamped score reaches the
\* threshold, 0 when there is none
FirstCrossing(rs) ==
  IF Crossing(rs) = {} THEN 0
  ELSE CHOOSE k \in Crossing(rs) : \A j \in Crossing(rs) : k <= j

InLoop == pc \in {"score", "value"}

EarlyDone == pc = "done" /\ exit_kind = "early"

\* trace entries of the round in progress (each round has its own depth)
RoundEntries == SelectSeq(trace.nodes, LAMBDA e : e.depth = depth)

Depth1Entries == SelectSeq(trace.nodes, LAMBDA e : e.depth = 1)

SomeInFlight == \E i \in 1..Len(tasks) : tasks[i].status = "inflight"

\* C1: candidates of a round are scored and checked one by one in the order
\* of the results list; search returns the first one whose clamped score is
\* >= quality_threshold, with that score, whatever later candidates of the
\* round would score.
C1_FirstCrossingWins ==
  /\ InLoop => (FirstCrossing(results) = 0 \/ FirstCrossing(results) > idx)
  /\ pc = "loop" => FirstCrossing(results) = 0
  /\ EarlyDone =>
       /\ FirstCrossing(results) = idx + 1
       /\ ret.result = results[idx + 1]
       /\ ret.score = ScoreOf(results[idx + 1])

\* the returned candidate is followed by one that would have scored higher
C1_Witness ==
  /\ EarlyDone
  /\ \E k \in 1..Len(results) : k > idx + 1 /\ ScoreOf(results[k]) > ret.score

\* C2: whatever agent_fn, value_fn and reflect_fn calls raise, search never
\* raises; it returns (None, 0.0, trace) exactly when no depth-1 agent call
\* produced a candidate, and a non-None candidate otherwise.
C2_NeverRaises ==
  /\ pc # "raised"
  /\ pc = "done" =>
       /\ (ret.result = NoneV /\ ret.score = 0) <=> calls.candidates1 = 0
       /\ calls.candidates1 > 0 => ret.result \in Candidates

\* every depth-1 agent call failed and search returned (None, 0.0)
C2_Witness ==
  /\ pc = "done"
  /\ calls.agent >= 2
  /\ calls.candidates1 = 0
  /\ ret = [result |-> NoneV, score |-> 0]

\* C3: at the return, reflection_triggered holds iff reflect_fn was invoked,
\* which is iff max_depth >= 2, some depth-1 candidate survived and no
\* depth-1 candidate scored >= quality_threshold.
C3_ReflectionTriggered ==
  pc = "done" =>
    /\ trace.reflection_triggered <=> calls.reflect >= 1
    /\ calls.reflect >= 1 <=>
         /\ self.max_depth >= 2
         /\ calls.candidates1 >= 1
         /\ \A k \in 1..Len(tree[1].children) :
              tree[tree[1].children[k]].score < Threshold
    /\ (exit_kind = "early" /\ depth = 1) => ~trace.reflection_triggered

\* a search that reflected and then returned
C3_Witness ==
  /\ pc = "done"
  /\ trace.reflection_triggered
  /\ calls.reflect >= 1
  /\ self.max_depth >= 2

\* C4 as stated: at an early exit every surviving candidate of the round
\* has been scored and recorded.
C4_AllScoredBeforeExit ==
  EarlyDone => Len(RoundEntries) = Len(results)

\* C4 amended: the early-exit check runs per candidate right after it is
\* scored; at an early exit exactly the candidates up to the returned one
\* have been scored and recorded, all but the last below the threshold.
C4_ScoredUpToExit ==
  EarlyDone =>
    /\ Len(RoundEntries) = idx + 1
    /\ calls.value = Len(trace.nodes)
    /\ Len(seen) = Len(trace.nodes)
    /\ seen[Len(seen)] >= Threshold
    /\ \A k \in 1..Len(seen) - 1 : seen[k] < Threshold
    /\ idx + 1 <= Len(results)

\* an early exit that leaves a surviving candidate of the round unscored
C4_Witness ==
  /\ EarlyDone
  /\ Len(RoundEntries) < Len(results)

\* C5: every agent_fn call of a round has completed before the round's
\* results are filtered and before any value_fn call of the round; search
\* never returns with an agent_fn call in flight.
C5_AllAwaited ==
  /\ pc # "expand" => ~SomeInFlight
  /\ inflight.value > 0 => ~SomeInFlight

\* a concurrent round in which some call failed has been filtered
C5_Witness ==
  /\ pc = "score"
  /\ self.concurrent_expand
  /\ n >= 2
  /\ Len(results) < n
  /\ idx = 0

IssueOrderSurvivors(ts) ==
  LET keep == { i \in 1..Len(ts) : ts[i].result \in Candidates }
      RECURSIVE upto(_)
      upto(i) == IF i = 0 THEN <<>>
                 ELSE IF i \in keep THEN Append(upto(i - 1), ts[i].result)
                 ELSE upto(i - 1)
  IN  upto(Len(ts))

ChangedTasks ==
  { i \in 1..Len(tasks) : i <= Len(tasks') /\ tasks'[i] # tasks[i] }

\* C6: the candidates scored are exactly the calls that returned a non-None
\* value, in the order the calls were issued, for every completion order;
\* a call that fails changes no sibling call.
C6_IssueOrder ==
  [][ /\ (pc = "expand" /\ pc' \in {"score", "loop"}) =>
           results' = IssueOrderSurvivors(tasks)
      /\ (pc = "expand" /\ pc' = "expand") =>
           /\ Cardinality(ChangedTasks) <= 1
           /\ \A i \in ChangedTasks :
                tasks[i].status = "inflight" /\ tasks'[i].status = "done"
    ]_vars

\* a concurrent round whose calls completed out of issue order, one of them
\* without a candidate
C6_Witness ==
  /\ pc = "expand"
  /\ self.concurrent_expand
  /\ AllDone(tasks)
  /\ \E i, j \in 1..Len(tasks) :
       /\ i < j
       /\ tasks[i].result \in Candidates
       /\ tasks[j].result \in Candidates
       /\ tasks[i].result # tasks[j].result
       /\ \E a, b \in 1..Len(order) : a < b /\ order[a] = j /\ order[b] = i
  /\ \E i \in 1..Len(tasks) : tasks[i].result = NoneV

\* C7: rounds are sequential; value_fn and reflect_fn calls are never
\* concurrent with each other nor with agent_fn calls, and a round's agent
\* calls are in flight only after every earlier value_fn and reflect_fn call
\* has completed.
C7_RoundsSequential ==
  /\ inflight.value + inflight.reflect <= 1
  /\ SomeInFlight =>
       /\ inflight.value = 0
       /\ inflight.reflect = 0
       /\ calls.value = Len(trace.nodes)
       /\ calls.reflect = depth - 1

\* round 2 or later has calls in flight after the scoring of round 1
C7_Witness ==
  /\ pc = "expand"
  /\ depth >= 2
  /\ SomeInFlight
  /\ calls.value >= 2
  /\ calls.reflect >= 1

ExpectedPrompt(refl) ==
  initial_prompt \o
  << "\n\n---\n## Quality Feedback from previous attempt:\n",
     refl,
     "\n\nPlease address the above feedback to produce a higher-quality analysis." >>

ExpectedRefined ==
  IF self.n_candidates - 1 > 2 THEN self.n_candidates - 1 ELSE 2

\* C8: a reflection round issues exactly max(2, n_candidates - 1) agent_fn
\* calls, each with the initial prompt followed by the feedback block of
\* that round's reflection only.
C8_ReflectionRound ==
  /\ (pc = "expand" /\ depth >= 2) =>
       /\ n = ExpectedRefined
       /\ Len(tasks) <= n
       /\ self.concurrent_expand => Len(tasks) = n
       /\ reflection = tree[best_node].reflection
       /\ \A i \in 1..Len(tasks) : tasks[i].prompt = ExpectedPrompt(reflection)
  /\ (pc \in {"score", "value", "loop", "done"} /\ depth >= 1) =>
       calls.agent = self.n_candidates + (depth - 1) * ExpectedRefined

\* round 3 is in flight and an earlier round left a different reflection
C8_Witness ==
  /\ pc = "expand"
  /\ depth = 3
  /\ tasks # <<>>
  /\ \E k \in 1..Len(tree) : tree[k].reflection \notin {"", reflection}

\* C9: after any sequence of add_node calls total_candidates = len(nodes),
\* one record and one increment per call, and best_score is the maximum of
\* the scores passed so far and 0.0.
C9_AddNode ==
  /\ trace.total_candidates = Len(trace.nodes)
  /\ Len(trace.nodes) = Len(seen)
  /\ trace.best_score = SeqMax(seen)
  /\ \A k \in 1..Len(seen) : trace.best_score >= seen[k]

\* three calls, the best score passed first
C9_Witness ==
  /\ pc = "trace"
  /\ Len(seen) = 3
  /\ seen[1] > seen[2]
  /\ seen[2] > seen[3]
  /\ trace.best_score = seen[1]

Depth1Finished == depth >= 2 \/ pc \in {"loop", "done"}

\* C10: when every depth-1 agent call succeeds and no depth-1 score reaches
\* quality_threshold, the depth-1 round records exactly n_candidates trace
\* entries at depth 1, numbered 1..n_candidates in order.
C10_Depth1Entries ==
  ( /\ Depth1Finished
    /\ calls.candidates1 = self.n_candidates
    /\ \A k \in 1..Len(Depth1Entries) : ~Depth1Entries[k].kwargs.early_exit )
  => /\ Len(Depth1Entries) = self.n_candidates
     /\ \A k \in 1..Len(Depth1Entries) : Depth1Entries[k].candidate = k
     /\ \A k \in 1..Len(trace.nodes) : k <= self.n_candidates => trace.nodes[k].depth = 1

\* n_candidates = 3, max_depth = 1: three entries and no early exit
C10_Witness ==
  /\ pc = "done"
  /\ self.n_candidates = 3
  /\ self.max_depth = 1
  /\ calls.candidates1 = 3
  /\ exit_kind = "final"
  /\ Len(Depth1Entries) = 3

\* ------------------------------------------------------------------------
\* LATSPipelineOrchestrator (backend/app/services/pipeline_orchestrator.py)
\*
\* Several run() coroutines may be in flight on one orchestrator object.  A
\* step of a run goes from one suspension point (an awaited status callback,
\* agent call or engine search round) to the next; code between two awaits
\* is atomic.  An engine search is summarised by its _expand rounds: each
\* round reads the engine's n_candidates, issues that many agent calls and
\* filters their outcomes as _safe_call and _expand do.
\* ------------------------------------------------------------------------
MaxRuns == 2       \* most run() invocations on the orchestrator

Depths == {"quick", "standard", "deep"}
AgentResult == "result"
\* what an awaited agent call can do: raise, return None, return a result
AgentOutcomes ==
  { [raised |-> TRUE,  val |-> NoneV],
    [raised |-> FALSE, val |-> NoneV],
    [raised |-> FALSE, val |-> AgentResult] }

ScoutFailed == "Scout stage failed"
AnalystFailed == "Analyst stage failed"
StrategyFailed == "Strategy stage failed"
Unset == "unset"
BypassTrace == [score |-> ScoreOne, lats_used |-> FALSE]
LatsTrace == "trace.to_dict()"

\* LATSPipelineOrchestrator.__init__
NewOrchestrator(n_candidates, max_depth, use_lats) ==
  [use_lats |-> use_lats,
   _scout_engine |-> [n_candidates |-> n_candidates, max_depth |-> max_depth],
   _strategy_engine |-> [n_candidates |-> n_candidates, max_depth |-> max_depth]]

\* create_orchestrator(depth), for either value of settings.lats_enabled
create_orchestrator(d, lats_enabled) ==
  CASE d = "quick" -> NewOrchestrator(1, 1, lats_enabled)
    [] d = "deep"  -> NewOrchestrator(3, 3, lats_enabled)
    [] OTHER       -> NewOrchestrator(2, 2, lats_enabled)

\* the locals of run() on entry
NewRun(d, has_callback) ==
  [pc |-> "entered", depth |-> d, has_callback |-> has_callback,
   stage |-> NoneV,           \* stage whose await the run is suspended on
   emitted |-> <<>>,          \* (stage, progress) of each callback call
   callback_raised |-> FALSE, \* some callback call raised
   scout_result |-> Unset, analyst_result |-> Unset,
   strategy_result |-> Unset,
   results |-> [scout |-> Unset, analyst |-> Unset, strategy |-> Unset,
                presenter |-> Unset],
   lats_traces |-> [scout |-> Unset, strategy |-> Unset],
   round |-> 0, pending |-> 0, best |-> NoneV,     \* the search in progress
   n_before |-> <<0, 0>>,     \* engines' n_candidates on entry
   n_set |-> <<0, 0>>,        \* and after the depth adjustment
   n_read |-> {},             \* n_candidates values its searches read
   agent_calls |-> {},        \* agent calls its searches made via agent_fn
   \* calls of search, and of the agents by run() itself
   calls |-> [search |-> 0, run_scout |-> 0, run_analyst |-> 0,
              run_strategy |-> 0, run_presenter |-> 0],
   error |-> NoneV, failed_in |-> NoneV]

\* lines 100-105: adjust LATS intensity based on depth
AdjustDepth(o, d) ==
  CASE d = "quick" -> [o EXCEPT !._scout_engine.n_candidates = 1,
                                !._strategy_engine.n_candidates = 1]
    [] d = "deep"  -> [o EXCEPT !._scout_engine.n_candidates = 3,
                                !._strategy_engine.n_candidates = 3]
    [] OTHER       -> o

EngineOf(o, stage) ==
  IF stage = "SCOUT" THEN o._scout_engine ELSE o._strategy_engine

AgentOf(stage) == IF stage = "SCOUT" THEN "run_scout" ELSE "run_strategy"

\* initial_prompt of the stage's search: target (line 115),
\* str(analyst_result) (line 144); a prompt is a sequence of text pieces
InitialPrompt(stage) ==
  IF stage = "SCOUT" THEN <<"target">> ELSE <<"str(analyst_result)">>

\* the value run() gives the stage's agent: target, analyst_result
AgentArg(stage) ==
  IF stage = "SCOUT" THEN <<"target">> ELSE <<"analyst_result">>

\* reflect_fn returns a critique or raises
ReflectOutcomes ==
  { [raised |-> FALSE, val |-> t] : t \in ReflectionTexts }
    \cup { [raised |-> TRUE, val |-> NoneV] }

\* the agent called with the prompt the engine passes
agent_fn_prompted(stage, _p) == [agent |-> AgentOf(stage), arg |-> _p]

\* lines 112 and 141: lambda _p: run_scout(target) and
\* lambda _p: run_strategy(analyst_result); the call the lambda makes
agent_fn(stage, _p) == [agent |-> AgentOf(stage), arg |-> AgentArg(stage)]

UsesLatsAlways(o, d) == o.use_lats

\* if self.use_lats and depth != "quick"
UsesLats(o, d) == o.use_lats /\ d # "quick"

\* search lines 154-165 and _expand: the engine's n_candidates is read and
\* that many agent calls are issued
SearchEnter(o, run, stage) ==
  LET k == EngineOf(o, stage).n_candidates
  IN  [run EXCEPT !.pc = "search", !.stage = stage, !.round = 1,
                  !.pending = k, !.best = NoneV,
                  !.n_read = @ \cup {k},
                  !.agent_calls = @ \cup {agent_fn(stage, InitialPrompt(stage))},
                  !.calls.search = @ + 1]

\* lines 121 and 150: the agent awaited directly
DirectCall(run, stage) ==
  [run EXCEPT !.pc = "agent", !.stage = stage,
              !.calls[AgentOf(stage)] = @ + 1]

\* lines 110-122 and 139-151 up to the await
LatsStage(o, run, stage) ==
  IF UsesLats(o, run.depth) THEN SearchEnter(o, run, stage)
  ELSE DirectCall(run, stage)

\* line 131
AnalystStage(run) ==
  [run EXCEPT !.pc = "agent", !.stage = "ANALYST",
              !.calls.run_analyst = @ + 1]

\* lines 160-164
PresenterStage(run) ==
  [run EXCEPT !.pc = "agent", !.stage = "PRESENTER",
              !.calls.run_presenter = @ + 1]

\* line 172: return results
Return(run) == [run EXCEPT !.pc = "done", !.stage = NoneV]

\* the code of run() that follows the _emit call for a stage, up to the
\* next await
AfterEmit(o, run, stage) ==
  CASE stage = "SCOUT"     -> LatsStage(o, run, "SCOUT")
    [] stage = "ANALYST"   -> AnalystStage(run)
    [] stage = "STRATEGY"  -> LatsStage(o, run, "STRATEGY")
    [] stage = "PRESENTER" -> PresenterStage(run)
    [] OTHER               -> Return(run)

_emit_silent(o, run, stage, progress) == AfterEmit(o, run, stage)

\* _emit: with a callback the run awaits it, without one it goes on
_emit(o, run, stage, progress) ==
  IF run.has_callback
  THEN [run EXCEPT !.pc = "callback", !.stage = stage,
                   !.emitted = Append(@, <<stage, progress>>)]
  ELSE AfterEmit(o, run, stage)

\* an exception leaves run()
Raise(run, err, stage) ==
  [run EXCEPT !.pc = "raised", !.stage = NoneV,
              !.error = err, !.failed_in = stage]

_emit_except_propagate(o, run) == Raise(run, ExceptionV, "CALLBACK")

\* _emit lines 186-187: except Exception, log a warning, go on
_emit_except(o, run) ==
  AfterEmit(o, [run EXCEPT !.callback_raised = TRUE], run.stage)

StageFailedNever(result) == FALSE

\* if scout_result is None / analyst_result is None / strategy_result is None
StageFailed(result) == result = NoneV

\* lines 119-128
ScoutDone(o, run, result, tr) ==
  LET r1 == [run EXCEPT !.scout_result = result, !.lats_traces.scout = tr]
  IN  IF StageFailed(result) THEN Raise(r1, ScoutFailed, "SCOUT")
      ELSE _emit(o, [r1 EXCEPT !.results.scout = result], "ANALYST", 35)

\* lines 132-136
AnalystDone(o, run, result) ==
  LET r1 == [run EXCEPT !.analyst_result = result]
  IN  IF StageFailed(result) THEN Raise(r1, AnalystFailed, "ANALYST")
      ELSE _emit(o, [r1 EXCEPT !.results.analyst = result], "STRATEGY", 55)

\* lines 148-157
StrategyDone(o, run, result, tr) ==
  LET r1 == [run EXCEPT !.strategy_result = result,
                        !.lats_traces.strategy = tr]
  IN  IF StageFailed(result) THEN Raise(r1, StrategyFailed, "STRATEGY")
      ELSE _emit(o, [r1 EXCEPT !.results.strategy = result], "PRESENTER", 80)

\* lines 165-166
PresenterDone(o, run, result) ==
  _emit(o, [run EXCEPT !.results.presenter = result], "DONE", 100)

\* the code of run() that follows the await of a stage's agent or search
StageDone(o, run, result, tr) ==
  CASE run.stage = "SCOUT"    -> ScoutDone(o, run, result, tr)
    [] run.stage = "ANALYST"  -> AnalystDone(o, run, result)
    [] run.stage = "STRATEGY" -> StrategyDone(o, run, result, tr)
    [] OTHER                  -> PresenterDone(o, run, result)

\* one _expand round of a search has been gathered: lines 165-241 from the
\* return of _expand up to the next _expand or to the return of search,
\* then the code of run() after the search.  early says whether a candidate
\* of the round scored at or above the engine's quality_threshold.
\* reflected is what reflect_fn does if another round follows.
SearchRoundDone(o, run, outcomes, early, reflected) ==
  LET eng == EngineOf(o, run.stage)
      improved == _build_improved_prompt(InitialPrompt(run.stage),
                                         _safe_reflect(reflected))
      got == FilterResults([i \in 1..run.pending |-> _safe_call(outcomes[i])])
      best == IF got # <<>> THEN got[1] ELSE run.best
      more == Max2(2, eng.n_candidates - 1)
  IN  IF (early /\ got # <<>>) \/ best = NoneV
         \/ ~ (run.round + 1 <= eng.max_depth)
      THEN StageDone(o, [run EXCEPT !.round = 0, !.pending = 0, !.best = NoneV],
                     best, LatsTrace)
      ELSE [run EXCEPT !.round = @ + 1, !.best = best, !.pending = more,
                       !.agent_calls = @ \cup {agent_fn(run.stage, improved)},
                       !.n_read = @ \cup {eng.n_candidates}]

\* the search coroutine of Spec stays where InitLocals puts it
SearchIdle ==
  /\ self = TraceConfig
  /\ pc = "idle"
  /\ InitLocals

OrchInit ==
  /\ orchestrator \in { create_orchestrator("standard", l) : l \in BOOLEAN }
  /\ runs = <<>>
  /\ SearchIdle
  /\ StoreIdle
  /\ UcbIdle
  /\ RetryIdle

\* orchestrator.run(job_id, target, depth, status_callback) is called:
\* lines 92-108 and on to the first await
RunCall(d, has_callback) ==
  /\ Len(runs) < MaxRuns
  /\ LET o == AdjustDepth(orchestrator, d)
         run == [NewRun(d, has_callback) EXCEPT
                   !.n_before = << orchestrator._scout_engine.n_candidates,
                                   orchestrator._strategy_engine.n_candidates >>,
                   !.n_set = << o._scout_engine.n_candidates,
                                o._strategy_engine.n_candidates >>]
     IN  /\ orchestrator' = o
         /\ runs' = Append(runs, _emit(o, run, "SCOUT", 10))
  /\ UNCHANGED <<searchVars, storeVars, ucbVars, retryVars>>

\* the awaited status callback returns
CallbackReturn(r) ==
  /\ runs[r].pc = "callback"
  /\ runs' = [runs EXCEPT ![r] = AfterEmit(orchestrator, runs[r], runs[r].stage)]
  /\ UNCHANGED <<orchestrator, searchVars, storeVars, ucbVars, retryVars>>

\* the awaited status callback raises
CallbackRaise(r) ==
  /\ runs[r].pc = "callback"
  /\ runs' = [runs EXCEPT ![r] = _emit_except(orchestrator, runs[r])]
  /\ UNCHANGED <<orchestrator, searchVars, storeVars, ucbVars, retryVars>>

\* a directly awaited run_scout / run_analyst / run_strategy /
\* run_presenter returns
AgentCallReturn(r, val) ==
  /\ runs[r].pc = "agent"
  /\ runs' = [runs EXCEPT ![r] = StageDone(orchestrator, runs[r], val, BypassTrace)]
  /\ UNCHANGED <<orchestrator, searchVars, storeVars, ucbVars, retryVars>>

\* a directly awaited agent raises: run() has no handler around the await
AgentCallRaise(r) ==
  /\ runs[r].pc = "agent"
  /\ runs' = [runs EXCEPT ![r] = Raise(runs[r], ExceptionV, runs[r].stage)]
  /\ UNCHANGED <<orchestrator, searchVars, storeVars, ucbVars, retryVars>>

\* the agent calls of a search round have all finished
SearchRound(r, outcomes, early, reflected) ==
  /\ runs[r].pc = "search"
  /\ runs' = [runs EXCEPT ![r] = SearchRoundDone(orchestrator, runs[r], outcomes,
                                                early, reflected)]
  /\ UNCHANGED <<orchestrator, searchVars, storeVars, ucbVars, retryVars>>

OrchNext ==
  \/ \E d \in Depths, has_callback \in BOOLEAN : RunCall(d, has_callback)
  \/ \E r \in 1..Len(runs) : CallbackReturn(r)
  \/ \E r \in 1..Len(runs) : CallbackRaise(r)
  \/ \E r \in 1..Len(runs), val \in {NoneV, AgentResult} : AgentCallReturn(r, val)
  \/ \E r \in 1..Len(runs) : AgentCallRaise(r)
  \/ \E r \in 1..Len(runs) :
       \E outcomes \in [1..runs[r].pending -> AgentOutcomes], early \in BOOLEAN,
          reflected \in ReflectOutcomes :
         SearchRound(r, outcomes, early, reflected)

OrchSpec == OrchInit /\ [][OrchNext]_vars

\* ------------------------------------------------------------------------
\* Properties of the orchestrator
\* ------------------------------------------------------------------------
IsPrefix(s, t) == Len(s) <= Len(t) /\ s = SubSeq(t, 1, Len(s))

StageCallbacks ==
  << <<"SCOUT", 10>>, <<"ANALYST", 35>>, <<"STRATEGY", 55>>,
     <<"PRESENTER", 80>>, <<"DONE", 100>> >>

Emitted(run, stage) ==
  \E k \in 1..Len(run.emitted) : run.emitted[k][1] = stage

\* C11: a run given a status callback calls it in the order SCOUT 10,
\* ANALYST 35, STRATEGY 55, PRESENTER 80, DONE 100 and never otherwise; a run
\* that returned has made exactly these five calls; the DONE call is made
\* only once run_presenter has returned and its result is stored.
C11_CallbackSequence ==
  \A r \in 1..Len(runs) :
    LET run == runs[r]
    IN  /\ IsPrefix(run.emitted, StageCallbacks)
        /\ (run.pc = "done" /\ run.has_callback) => run.emitted = StageCallbacks
        /\ Emitted(run, "DONE") =>
             /\ run.calls.run_presenter = 1
             /\ run.results.presenter # Unset

C11_Witness ==
  \E r \in 1..Len(runs) :
    /\ runs[r].pc = "done"
    /\ runs[r].has_callback
    /\ runs[r].emitted = StageCallbacks

\* C12: a run whose Scout stage yielded None (from the search or from the
\* direct call) has raised 'Scout stage failed' without calling run_analyst
\* and without any callback after SCOUT; a run whose Strategy stage yielded
\* None has raised 'Strategy stage failed' without calling run_presenter and
\* without any callback after STRATEGY.
C12_FailFast ==
  \A r \in 1..Len(runs) :
    LET run == runs[r]
    IN  /\ run.scout_result = NoneV =>
             /\ run.pc = "raised" /\ run.error = ScoutFailed
             /\ run.calls.run_analyst = 0
             /\ run.calls.run_strategy = 0 /\ run.calls.run_presenter = 0
             /\ Len(run.emitted) <= 1
        /\ run.strategy_result = NoneV =>
             /\ run.pc = "raised" /\ run.error = StrategyFailed
             /\ run.calls.run_presenter = 0
             /\ Len(run.emitted) <= 3

\* both failures are seen, one through a search and one through a direct call
C12_Witness ==
  /\ \E r \in 1..Len(runs) :
       /\ runs[r].scout_result = NoneV
       /\ runs[r].calls.search = 1
       /\ runs[r].error = ScoutFailed
  /\ \E r \in 1..Len(runs) :
       /\ runs[r].strategy_result = NoneV
       /\ runs[r].calls.search = 0
       /\ runs[r].has_callback
       /\ runs[r].error = StrategyFailed

IgnoringCallbackRaised(run) == [run EXCEPT !.callback_raised = FALSE]

\* C13: whatever an awaited status callback does, return or raise, the run
\* resumes exactly as after a callback that returned: same next await, same
\* locals and result dict, and no exception leaves run().
C13_CallbackErrorsSwallowed ==
  [][ \A r \in 1..Len(runs) :
        (runs[r].pc = "callback" /\ runs'[r] # runs[r]) =>
          /\ IgnoringCallbackRaised(runs'[r]) =
               IgnoringCallbackRaised(AfterEmit(orchestrator, runs[r], runs[r].stage))
          /\ runs'[r].pc # "raised" ]_vars

\* a run whose callback raised has returned its full result dict
C13_Witness ==
  \E r \in 1..Len(runs) :
    /\ runs[r].callback_raised
    /\ runs[r].pc = "done"
    /\ runs[r].emitted = StageCallbacks
    /\ \A k \in DOMAIN runs[r].results : runs[r].results[k] # Unset

\* C14: a 'quick' run sets both engines' n_candidates to 1, never calls
\* search, calls run_scout and run_strategy once each (exactly once by the
\* time the stage is over) and records the bypass marker for both stages; a
\* 'deep' run sets both n_candidates to 3; a 'standard' run leaves them as
\* it found them.
C14_DepthHandling ==
  \A r \in 1..Len(runs) :
    LET run == runs[r]
    IN  /\ run.depth = "quick" =>
             /\ run.n_set = <<1, 1>>
             /\ run.calls.search = 0
             /\ run.calls.run_scout <= 1 /\ run.calls.run_strategy <= 1
             /\ run.scout_result # Unset =>
                  run.calls.run_scout = 1 /\ run.lats_traces.scout = BypassTrace
             /\ run.strategy_result # Unset =>
                  run.calls.run_strategy = 1 /\ run.lats_traces.strategy = BypassTrace
        /\ run.depth = "deep" => run.n_set = <<3, 3>>
        /\ run.depth = "standard" => run.n_set = run.n_before

\* a 'quick' run on an orchestrator with use_lats set has returned, and a
\* 'standard' run has found and left the engines at another run's value
C14_Witness ==
  /\ orchestrator.use_lats
  /\ \E r \in 1..Len(runs) :
       /\ runs[r].depth = "quick"
       /\ runs[r].pc = "done"
       /\ runs[r].lats_traces = [scout |-> BypassTrace, strategy |-> BypassTrace]
  /\ \E r \in 1..Len(runs) :
       /\ runs[r].depth = "standard"
       /\ runs[r].n_before = <<1, 1>>
       /\ runs[r].n_set = <<1, 1>>

\* C15: every exception that leaves run() out of the Scout or the Strategy
\* stage is that stage's 'stage failed' RuntimeError, never the exception
\* the agent call raised.
C15_StageErrorsOnly ==
  \A r \in 1..Len(runs) :
    LET run == runs[r]
    IN  /\ (run.pc = "raised" /\ run.failed_in = "SCOUT") => run.error = ScoutFailed
        /\ (run.pc = "raised" /\ run.failed_in = "STRATEGY") => run.error = StrategyFailed

\* the n_candidates a run's own depth argument sets
OwnCandidates(run) == IF run.depth = "quick" THEN 1 ELSE 3

\* C16: the searches of a 'quick' or 'deep' run read no other n_candidates
\* than the one the run's own depth set, whatever other runs of the same
\* orchestrator do between its awaits.
C16_OwnCandidates ==
  \A r \in 1..Len(runs) :
    runs[r].depth # "standard" => runs[r].n_read \subseteq {OwnCandidates(runs[r])}

\* ------------------------------------------------------------------------
\* Job store (backend/app/services/job_store.py)
\*
\* _jobs is kept as the sequence of job dicts in insertion order, a job id is
\* the number of the uuid4() call that made it, and time is counted in
\* minutes.  Of a job dict the fields the pipeline runner and the cleanup
\* read or write are kept.  run_real_pipeline is a coroutine that suspends
\* at the await of each stage's agent; create_job and whatever runs between
\* two awaits are atomic.
\* ------------------------------------------------------------------------
MaxCreates == 202      \* create_job calls explored for the cap
MaxJobs == 2           \* create_job calls explored next to pipeline runs
MaxInvocations == 2    \* run_real_pipeline invocations explored
MaxClock == 2000       \* minutes of wall-clock time explored

_MAX_JOBS == 200
_JOB_TTL_HOURS == 24
JobTtl == _JOB_TTL_HOURS * 60     \* timedelta(hours=_JOB_TTL_HOURS)

PipelineStages == <<"SCOUT", "ANALYST", "STRATEGY", "PRESENTER">>

\* the dict create_job stores
NewJob(job_id, now) ==
  [job_id |-> job_id, stage |-> "PENDING", created_at |-> now,
   SCOUT |-> NoneV, ANALYST |-> NoneV, STRATEGY |-> NoneV,
   PRESENTER |-> NoneV,     \* scout_result ... presenter_result
   results |-> NoneV, error |-> NoneV, failed_at_stage |-> NoneV]

JobIds(jobs) == { jobs[k].job_id : k \in 1..Len(jobs) }

\* rank of jobs[k] in sorted(_jobs.keys(), key=created_at): sorted is
\* stable, so equal created_at keep their insertion order
SortedRank(jobs, k) ==
  Cardinality({ j \in 1..Len(jobs) :
                  \/ jobs[j].created_at < jobs[k].created_at
                  \/ jobs[j].created_at = jobs[k].created_at /\ j < k })

Fresh(jobs, now) ==
  LET cutoff == now - JobTtl
      Keep(j) == ~ (j.created_at < cutoff)
  IN  SelectSeq(jobs, Keep)

\* cap eviction: if len(_jobs) > _MAX_JOBS the oldest len(_jobs) - _MAX_JOBS
\* jobs are removed
Cap(jobs) ==
  LET excess == Len(jobs) - _MAX_JOBS
      ranked == [k \in 1..Len(jobs) |-> [job |-> jobs[k], rank |-> SortedRank(jobs, k)]]
      Keep(e) == e.rank >= excess
      kept == SelectSeq(ranked, Keep)
  IN  IF Len(jobs) > _MAX_JOBS THEN [k \in 1..Len(kept) |-> kept[k].job] ELSE jobs

\* _cleanup_old_jobs: TTL eviction, then cap eviction
_cleanup_old_jobs(jobs, now) == Cap(Fresh(jobs, now))

\* create_job: cleanup first, then the new job is stored
create_job(jobs, job_id, now) ==
  Append(_cleanup_old_jobs(jobs, now), NewJob(job_id, now))

count_active_jobs == Len(_jobs)

\* create_job is called dt minutes after the previous store operation
CreateJob(dt) ==
  /\ clock + dt <= MaxClock
  /\ clock' = clock + dt
  /\ uuids' = uuids + 1
  /\ _jobs' = create_job(_jobs, uuids + 1, clock + dt)
  /\ _locks' = _locks \cap JobIds(_cleanup_old_jobs(_jobs, clock + dt))
  /\ UNCHANGED <<invocations, searchVars, orchVars, ucbVars, retryVars>>

HasJob(jobs, job_id) == job_id \in JobIds(jobs)

GetJob(jobs, job_id) ==
  jobs[CHOOSE k \in 1..Len(jobs) : jobs[k].job_id = job_id]

\* _jobs[job_id][key] = value for each key of fields
SetJob(jobs, job_id, fields) ==
  [k \in 1..Len(jobs) |->
     IF jobs[k].job_id = job_id
     THEN [f \in DOMAIN jobs[k] |->
             IF f \in DOMAIN fields THEN fields[f] ELSE jobs[k][f]]
     ELSE jobs[k]]

\* _advance_stage: a job that is not in the store is left alone
_advance_stage(jobs, job_id, stage) ==
  IF HasJob(jobs, job_id) THEN SetJob(jobs, job_id, [stage |-> stage]) ELSE jobs

IsStage(p) == \E k \in 1..Len(PipelineStages) : PipelineStages[k] = p

StageNo(p) == CHOOSE k \in 1..Len(PipelineStages) : PipelineStages[k] = p

\* lock.locked(): an invocation for the job is inside async with lock
Locked(job_id) ==
  \E i \in 1..Len(invocations) :
    invocations[i].job_id = job_id /\ IsStage(invocations[i].pc)

\* run_real_pipeline(job_id) is called: lines 287-304, up to the return
\* of a dropped invocation or to the await of run_scout
PipelineCall(job_id) ==
  /\ Len(invocations) < MaxInvocations
  /\ IF ~ HasJob(_jobs, job_id)
     THEN /\ invocations' = Append(invocations,
               [job_id |-> job_id, pc |-> "returned", why |-> "unknown job", ran |-> <<>>])
          /\ UNCHANGED <<_jobs, _locks>>
     ELSE IF Locked(job_id)
     THEN /\ invocations' = Append(invocations,
               [job_id |-> job_id, pc |-> "returned", why |-> "duplicate", ran |-> <<>>])
          /\ _locks' = _locks \cup {job_id}
          /\ UNCHANGED _jobs
     ELSE /\ invocations' = Append(invocations,
               [job_id |-> job_id, pc |-> "SCOUT", why |-> NoneV, ran |-> <<"SCOUT">>])
          /\ _locks' = _locks \cup {job_id}
          /\ _jobs' = _advance_stage(_jobs, job_id, "SCOUT")
  /\ UNCHANGED <<clock, uuids, searchVars, orchVars, ucbVars, retryVars>>

\* the awaited agent of the invocation's stage returns: the result is
\* stored, the _stage block is left and the next one entered up to its
\* await; after PRESENTER the results are built and the job is DONE.  When
\* the job is gone the store raises KeyError, _stage re-raises it and the
\* handler at lines 354-359 raises KeyError again.
StageReturn(i) ==
  LET inv == invocations[i]
      here == StageNo(inv.pc)
      stored == SetJob(_jobs, inv.job_id, [x \in {inv.pc} |-> "result"])
  IN  /\ IsStage(inv.pc)
      /\ IF ~ HasJob(_jobs, inv.job_id)
         THEN /\ invocations' = [invocations EXCEPT ![i].pc = "raised", ![i].why = "KeyError"]
              /\ UNCHANGED _jobs
         ELSE IF here < Len(PipelineStages)
         THEN /\ invocations' = [invocations EXCEPT
                                   ![i].pc = PipelineStages[here + 1],
                                   ![i].ran = Append(@, PipelineStages[here + 1])]
              /\ _jobs' = _advance_stage(stored, inv.job_id, PipelineStages[here + 1])
         ELSE /\ invocations' = [invocations EXCEPT ![i].pc = "returned", ![i].why = "done"]
              /\ _jobs' = _advance_stage(
                            SetJob(stored, inv.job_id, [results |-> "results"]),
                            inv.job_id, "DONE")
      /\ UNCHANGED <<_locks, clock, uuids, searchVars, orchVars, ucbVars, retryVars>>

\* the awaited agent raises: _stage marks the job ERROR if it is still in
\* the store and re-raises; the handler at lines 354-359 finds ERROR and
\* only logs, or finds no job and raises KeyError
StageRaise(i) ==
  LET inv == invocations[i]
  IN  /\ IsStage(inv.pc)
      /\ IF HasJob(_jobs, inv.job_id)
         THEN /\ _jobs' = SetJob(_jobs, inv.job_id,
                            [stage |-> "ERROR", failed_at_stage |-> inv.pc,
                             error |-> ExceptionV])
              /\ invocations' = [invocations EXCEPT ![i].pc = "returned", ![i].why = "error"]
         ELSE /\ invocations' = [invocations EXCEPT ![i].pc = "raised", ![i].why = "KeyError"]
              /\ UNCHANGED _jobs
      /\ UNCHANGED <<_locks, clock, uuids, searchVars, orchVars, ucbVars, retryVars>>

StoreInit ==
  /\ StoreIdle
  /\ SearchIdle
  /\ OrchIdle
  /\ UcbIdle
  /\ RetryIdle

\* create_job calls alone, one minute or more than the TTL apart
CapNext ==
  /\ uuids < MaxCreates
  /\ \E dt \in {1, JobTtl + 1} : CreateJob(dt)

CapSpec == StoreInit /\ [][CapNext]_vars

\* create_job calls and pipeline runs
PipeNext ==
  \/ /\ uuids < MaxJobs
     /\ \E dt \in {0, JobTtl, JobTtl + 1} : CreateJob(dt)
  \/ \E job_id \in 1..uuids : PipelineCall(job_id)
  \/ \E i \in 1..Len(invocations) : StageReturn(i)
  \/ \E i \in 1..Len(invocations) : StageRaise(i)

PipeSpec == StoreInit /\ [][PipeNext]_vars

\* ------------------------------------------------------------------------
\* Properties of the job store
\* ------------------------------------------------------------------------

\* C17: whatever create_job calls have been made, the store holds at most
\* _MAX_JOBS jobs.
C17_CapHolds == count_active_jobs <= _MAX_JOBS

\* C18: of the run_real_pipeline invocations made for one job at most one
\* ever starts a pipeline stage.
C18_OnlyFirstRuns ==
  \A i, j \in 1..Len(invocations) :
    (i # j /\ invocations[i].job_id = invocations[j].job_id) =>
      (invocations[i].ran = <<>> \/ invocations[j].ran = <<>>)

StageAfter(a) ==
  CASE a = "PENDING"   -> "SCOUT"
    [] a = "SCOUT"     -> "ANALYST"
    [] a = "ANALYST"   -> "STRATEGY"
    [] a = "STRATEGY"  -> "PRESENTER"
    [] a = "PRESENTER" -> "DONE"
    [] OTHER           -> NoneV

\* C19: in every step the stage of a job that stays in the store keeps its
\* value, moves to the next stage of PENDING, SCOUT, ANALYST, STRATEGY,
\* PRESENTER, DONE, or moves to ERROR; from DONE and from ERROR it never
\* changes.
C19_StageOrder ==
  [][ \A job_id \in JobIds(_jobs) \cap JobIds(_jobs') :
        LET a == GetJob(_jobs, job_id).stage
            b == GetJob(_jobs', job_id).stage
        IN  \/ b = a
            \/ a \notin {"DONE", "ERROR"} /\ b \in {StageAfter(a), "ERROR"} ]_vars

\* ------------------------------------------------------------------------
\* TreeNode.ucb1 (backend/app/services/lats_engine.py, lines 47-56)
\*
\* The method is a pure function of the node's visits and value, of its
\* parent's visits and of exploration_weight.  Its float result is kept as
\* the expression the code evaluates, value / visits plus exploration_weight
\* times sqrt(log(parent_visits) / visits), given by its operands; a
\* division by zero or a math domain error is an exception.  parent is the
\* empty sequence for None and a one-element sequence otherwise.
\* ------------------------------------------------------------------------
MaxVisits == 3     \* largest visits count of a node or its parent

\* accumulated values of a node: 0.0, 0.5, 2.1
NodeValues == {0, NeutralScore, 210000}
\* exploration_weight: the default 1.414 and 0.5, in thousandths
ExplorationWeights == {1414, 500}

UcbNodes ==
  [visits : 0..MaxVisits, value : NodeValues,
   parent : {<<>>} \cup { << [visits |-> v] >> : v \in 0..MaxVisits }]

UcbInf == [kind |-> "inf"]

\* exploit + explore; ZeroDivisionError when visits is 0, ValueError from
\* math.log when parent_visits is not positive
UcbSum(nd, parent_visits, exploration_weight) ==
  IF nd.visits = 0 THEN [kind |-> "ZeroDivisionError"]
  ELSE IF parent_visits <= 0 THEN [kind |-> "ValueError"]
  ELSE [kind |-> "finite",
        exploit |-> [num |-> nd.value, den |-> nd.visits],
        explore |-> [weight |-> exploration_weight,
                     log_of |-> parent_visits, over |-> nd.visits]]

ucb1_unchecked_parent(nd, exploration_weight) ==
  IF nd.visits = 0 THEN UcbInf
  ELSE UcbSum(nd, IF nd.parent # <<>> THEN nd.parent[1].visits ELSE nd.visits,
              exploration_weight)

ucb1(nd, exploration_weight) ==
  IF nd.visits = 0 THEN UcbInf
  ELSE LET parent_visits ==
             IF nd.parent # <<>> THEN nd.parent[1].visits ELSE nd.visits
       IN  IF parent_visits = 0 THEN UcbInf
           ELSE UcbSum(nd, parent_visits, exploration_weight)

UcbInit ==
  /\ ucb_node \in [node : UcbNodes, exploration_weight : ExplorationWeights]
  /\ ucb_ret = [kind |-> "pending"]
  /\ SearchIdle
  /\ OrchIdle
  /\ StoreIdle
  /\ RetryIdle

\* node.ucb1(exploration_weight) is called
Ucb1Call ==
  /\ ucb_ret.kind = "pending"
  /\ ucb_ret' = ucb1(ucb_node.node, ucb_node.exploration_weight)
  /\ UNCHANGED <<ucb_node, searchVars, orchVars, storeVars, retryVars>>

UcbSpec == UcbInit /\ [][Ucb1Call]_vars

\* C20: ucb1 returns +inf exactly when the node has no visits or has a
\* parent without visits; on a node with visits whose parent has visits it
\* returns the finite value / visits + exploration_weight *
\* sqrt(ln(parent.visits) / visits); it never raises.
C20_Ucb1 ==
  ucb_ret.kind # "pending" =>
    LET nd == ucb_node.node
        has_parent == nd.parent # <<>>
    IN  /\ ucb_ret.kind \in {"inf", "finite"}
        /\ ucb_ret.kind = "inf" <=>
             (nd.visits = 0 \/ (has_parent /\ nd.parent[1].visits = 0))
        /\ (nd.visits > 0 /\ has_parent /\ nd.parent[1].visits > 0) =>
             ucb_ret = [kind |-> "finite",
                        exploit |-> [num |-> nd.value, den |-> nd.visits],
                        explore |-> [weight |-> ucb_node.exploration_weight,
                                     log_of |-> nd.parent[1].visits,
                                     over |-> nd.visits]]

\* a node with 3 visits under a parent with 2 gets a finite result whose
\* logarithm is taken of the parent's visits
C20_Witness ==
  /\ ucb_ret.kind = "finite"
  /\ ucb_node.node.visits = 3
  /\ ucb_node.node.parent = << [visits |-> 2] >>
  /\ ucb_ret.explore.log_of = 2

\* ------------------------------------------------------------------------
\* ------------------------------------------------------------------------
\* deploy_ai_client._request_with_retry
\* (backend/app/services/deploy_ai_client.py, lines 59-108)
\*
\* The coroutine suspends at the await of the HTTP request and at the await
\* of asyncio.sleep.  The request either returns a response, of which the
\* status code is kept, or raises; delays are in seconds.
\* ------------------------------------------------------------------------
_MAX_RETRIES == 3
_RETRY_DELAYS == <<1, 2, 4>>

_TRANSIENT_EXCEPTIONS ==
  {"NetworkError", "TimeoutException", "ConnectError", "RemoteProtocolError"}

\* exceptions of the request that the except clause does not name
OtherExceptions == {"InvalidURL", "ValueError"}
StatusCodes == {200, 401, 500}
Methods == {"get", "post"}

DeployAIError(operation, status_code, detail) ==
  [kind |-> "DeployAIError", operation |-> operation,
   status_code |-> status_code, detail |-> detail]

RetryInit ==
  /\ request \in [method : Methods, op_name : {"op"}]
  /\ retry_pc = "request"       \* attempt 0 awaits its request
  /\ attempt = 0
  /\ last_exc = NoneV
  /\ sleeps = <<>>
  /\ retry_ret = [kind |-> "pending"]
  /\ SearchIdle
  /\ OrchIdle
  /\ StoreIdle
  /\ UcbIdle

\* line 88-89: the request returns a response, which is returned as it is
ResponseReturn(status_code) ==
  /\ retry_pc = "request"
  /\ retry_pc' = "returned"
  /\ retry_ret' = [kind |-> "Response", status_code |-> status_code]
  /\ UNCHANGED <<request, attempt, last_exc, sleeps,
                 searchVars, orchVars, storeVars, ucbVars>>

\* delay = _RETRY_DELAYS[attempt], the list being 0-based in the code
Delay(a) == _RETRY_DELAYS[a + 1]

\* lines 90-103: the request raises a transient exception; before the last
\* attempt the coroutine sleeps, after it the loop ends and line 105 raises
TransientRaise(exc) ==
  /\ retry_pc = "request"
  /\ last_exc' = exc
  /\ IF attempt < _MAX_RETRIES - 1
     THEN /\ sleeps' = Append(sleeps, Delay(attempt))
          /\ retry_pc' = "sleep"
          /\ UNCHANGED retry_ret
     ELSE /\ retry_pc' = "raised"
          /\ retry_ret' = DeployAIError(request.op_name, 0, exc)
          /\ UNCHANGED sleeps
  /\ UNCHANGED <<request, attempt, searchVars, orchVars, storeVars, ucbVars>>

\* asyncio.sleep returns: the loop goes to its next attempt
SleepReturn ==
  /\ retry_pc = "sleep"
  /\ attempt' = attempt + 1
  /\ retry_pc' = "request"
  /\ UNCHANGED <<request, last_exc, sleeps, retry_ret,
                 searchVars, orchVars, storeVars, ucbVars>>

\* the request raises an exception the except clause does not catch
OtherRaise(exc) ==
  /\ retry_pc = "request"
  /\ retry_pc' = "raised"
  /\ retry_ret' = [kind |-> exc]
  /\ UNCHANGED <<request, attempt, last_exc, sleeps,
                 searchVars, orchVars, storeVars, ucbVars>>

RetryNext ==
  \/ \E status_code \in StatusCodes : ResponseReturn(status_code)
  \/ \E exc \in _TRANSIENT_EXCEPTIONS : TransientRaise(exc)
  \/ SleepReturn
  \/ \E exc \in OtherExceptions : OtherRaise(exc)

RetrySpec == RetryInit /\ [][RetryNext]_vars

\* ------------------------------------------------------------------------
\* Properties of the search tree
\* ------------------------------------------------------------------------
NonRoot == 2..Len(tree)

IsChildOfParent(k) ==
  \E c \in 1..Len(tree[tree[k].parent].children) :
    tree[tree[k].parent].children[c] = k

\* C21: every non-root node is in the children of the node its parent
\* field names and is one level deeper than that node.
C21_DepthIsParentPlusOne ==
  \A k \in NonRoot :
    /\ IsChildOfParent(k)
    /\ tree[k].depth = tree[tree[k].parent].depth + 1

\* the nodes on the parent chain of node k of tree t, k itself included
RECURSIVE ParentChain(_, _)
ParentChain(t, k) ==
  IF k = 0 THEN {} ELSE {k} \cup ParentChain(t, t[k].parent)

\* the node search() hands to _backpropagate on the step that returns
Backpropagated == IF exit_kind' = "early" THEN Len(tree') ELSE best_node

\* visits and value of node k before the pass: those of the tree so far,
\* or those the constructor gave a node created on this very step
BeforePass(k) ==
  IF k <= Len(tree) THEN [visits |-> tree[k].visits, value |-> tree[k].value]
  ELSE [visits |-> 1, value |-> tree'[k].score]

\* C22: the one backpropagation pass of a returning search adds 1 to visits
\* and v to value on the start node and on each of its ancestors up to the
\* root, changes no other node, and its walk ends at the root (parents have
\* smaller indices, so it is finite).
C22_Backpropagate ==
  [][(pc # "done" /\ pc' = "done" /\ Backpropagated # 0) =>
       LET chain == ParentChain(tree', Backpropagated)
           v == tree'[Backpropagated].score
       IN /\ 1 \in chain
          /\ \A k \in chain : tree'[k].parent < k
          /\ \A k \in 1..Len(tree') :
               /\ tree'[k].visits =
                    BeforePass(k).visits + (IF k \in chain THEN 1 ELSE 0)
               /\ tree'[k].value =
                    BeforePass(k).value + (IF k \in chain THEN v ELSE 0)]_vars

\* a finished search whose pass went through three nodes (a refined
\* candidate, its depth-1 parent, the root) and left another node alone
C22_Witness ==
  /\ pc = "done"
  /\ best_node # 0
  /\ tree[best_node].depth = 2
  /\ tree[best_node].visits = 2
  /\ tree[tree[best_node].parent].visits = 2
  /\ tree[1].visits = 1
  /\ \E k \in NonRoot : tree[k].visits = 1

InUnitRange(x) == ScoreZero <= x /\ x <= ScoreOne

\* C23: every node's score is in [0,1] whatever value_fn returned, its value
\* is not negative, a node without visits has value 0, and every score
\* recorded in the trace is in [0,1].
C23_NodeStatistics ==
  /\ \A k \in 1..Len(tree) :
       /\ InUnitRange(tree[k].score)
       /\ tree[k].value >= 0
       /\ (tree[k].visits = 0 => tree[k].value = 0)
  /\ \A i \in 1..Len(trace.nodes) : InUnitRange(trace.nodes[i].score)

\* a tree holding a candidate value_fn scored above 1, one it scored below
\* 0 and one it raised on, each recorded in the trace
C23_Witness ==
  /\ \E k \in NonRoot : tree[k].state = "cHigh" /\ tree[k].score = ScoreOne
  /\ \E k \in NonRoot : tree[k].state = "cLow" /\ tree[k].score = ScoreZero
  /\ \E k \in NonRoot : tree[k].state = "cErr" /\ tree[k].score = NeutralScore
  /\ Len(trace.nodes) = Len(tree) - 1

\* the step on which search() assigns best_node.reflection (line 194)
ReflectionWrite == pc = "reflect" /\ pc' = "expand"

\* C24: a node's score never changes after creation, its visits and value
\* change only on the returning step (backpropagation), and its reflection
\* field is assigned at most once.
C24_NodeLifecycle ==
  [][/\ \A k \in 1..Len(tree) :
          /\ tree'[k].score = tree[k].score
          /\ (pc' # "done" =>
                /\ tree'[k].visits = tree[k].visits
                /\ tree'[k].value = tree[k].value)
     /\ (ReflectionWrite => tree[best_node].reflection = "")]_vars

\* ------------------------------------------------------------------------
\* Properties of a failing or evicted pipeline run
\* ------------------------------------------------------------------------

\* invocation i is inside the body of a stage and that body raises on this
\* step: its agent raised, or the store of its result found the job gone
StageBodyRaises(i) ==
  /\ IsStage(invocations[i].pc)
  /\ invocations'[i].why \in {"error", "KeyError"}

LaterStages(x) ==
  { PipelineStages[k] : k \in (StageNo(x) + 1)..Len(PipelineStages) }

\* C25: when the body of stage X raises, run_real_pipeline returns without
\* raising, starts no later stage, and leaves the job with stage ERROR,
\* failed_at_stage X, an error text and no result of a later stage.
C25_StageFailure ==
  [][\A i \in 1..Len(invocations) :
       StageBodyRaises(i) =>
         LET x == invocations[i].pc
             job_id == invocations[i].job_id
         IN  /\ invocations'[i].pc = "returned"
             /\ invocations'[i].ran = invocations[i].ran
             /\ HasJob(_jobs', job_id)
             /\ GetJob(_jobs', job_id).stage = "ERROR"
             /\ GetJob(_jobs', job_id).failed_at_stage = x
             /\ GetJob(_jobs', job_id).error # NoneV
             /\ \A y \in LaterStages(x) : GetJob(_jobs', job_id)[y] = NoneV]_vars

\* ------------------------------------------------------------------------
\* Properties of _request_with_retry
\* ------------------------------------------------------------------------

\* the number of requests the call has issued so far
Attempts == attempt + 1

\* C26: the call makes at most 3 attempts, sleeps only after a transient
\* failure, returns the first response whatever its status, lets any other
\* exception through without a retry, and raises DeployAIError after 3
\* transient failures, having slept the backoff delays 1s, 2s and 4s.
C26_RetryBackoff ==
  /\ Attempts <= _MAX_RETRIES
  /\ Len(sleeps) <= Attempts
  /\ (sleeps # <<>> => last_exc \in _TRANSIENT_EXCEPTIONS)
  /\ (retry_ret.kind = "Response" => Len(sleeps) = Attempts - 1)
  /\ (retry_ret.kind \in OtherExceptions => Len(sleeps) = Attempts - 1)
  /\ (retry_ret.kind = "DeployAIError" =>
        /\ Attempts = _MAX_RETRIES
        /\ sleeps = _RETRY_DELAYS)

\* ------------------------------------------------------------------------
\* Properties of what search returns
\* ------------------------------------------------------------------------

\* C27: when search has returned, the returned score is trace.best_score and
\* the largest score passed to add_node (0 when there was none), each trace
\* entry holds the rounding of the score passed for it, the returned result
\* is the state of a node with the returned score, and after an early exit
\* the last trace entry and the last node are the returned candidate.
C27_ReturnedIsBest ==
  pc = "done" =>
    /\ ret.score = trace.best_score
    /\ ret.score = SeqMax(seen)
    /\ Len(trace.nodes) = Len(seen)
    /\ \A i \in 1..Len(seen) : trace.nodes[i].score = Round4(seen[i])
    /\ \E k \in 1..Len(tree) :
         tree[k].state = ret.result /\ tree[k].score = ret.score
    /\ exit_kind = "early" =>
         /\ seen[Len(seen)] = ret.score
         /\ tree[Len(tree)].state = ret.result
         /\ tree[Len(tree)].score = ret.score
         /\ trace.nodes[Len(seen)].depth = tree[Len(tree)].depth

\* a search without early exit that returned the first of two refined
\* candidates, which scored above the depth-1 candidate and above the second
C27_Witness ==
  /\ pc = "done"
  /\ exit_kind = "final"
  /\ Len(seen) = 3
  /\ seen[2] > seen[1]
  /\ seen[2] > seen[3]
  /\ ret.score = seen[2]
  /\ tree[best_node].depth = 2

\* the number of _backpropagate passes made: each pass adds 1 to the
\* root's visits, which start at 0
BackpropagationPasses == tree[1].visits

\* how far the coroutine is past the last collaborator call it issued
SinceLastCall ==
  CASE pc = "expand"  -> Cardinality({i \in 1..Len(tasks) : tasks[i].status = "done"})
    [] pc = "value"   -> 1 - inflight.value
    [] pc = "reflect" -> 1 - inflight.reflect
    [] pc = "score"   -> MaxN + 1
    [] pc = "loop"    -> MaxN + 2
    [] pc = "done"    -> MaxN + 3
    [] OTHER          -> 0

\* a measure of the work done: the collaborator calls issued so far, then
\* the position since the last of them
SearchProgress ==
  (MaxN + 4) * (calls.agent + calls.value + calls.reflect) + SinceLastCall

ProgressBound ==
  (MaxN + 4) * (2 * AgentCallBudget(self) + self.max_depth)

CallBounds ==
  /\ calls.agent <= AgentCallBudget(self)
  /\ calls.value <= AgentCallBudget(self)
  /\ calls.reflect <= Max2(0, self.max_depth - 1)
  /\ BackpropagationPasses = IF pc = "done" /\ Len(tree) > 1 THEN 1 ELSE 0
  /\ SearchProgress <= ProgressBound

\* C28: search makes at most n_candidates + (max_depth - 1) * max(2,
\* n_candidates - 1) agent_fn calls, at most as many value_fn calls, at
\* most max(0, max_depth - 1) reflect_fn calls, and one backpropagation
\* pass if a node was created and none otherwise; and it terminates when
\* every collaborator call returns or raises: until it has returned a step
\* of the coroutine or of a call in flight is possible, and every step
\* raises a measure that is bounded.
C28_Terminates ==
  /\ []CallBounds
  /\ [](pc = "done" \/ ENABLED Next)
  /\ [][SearchProgress' > SearchProgress]_vars

\* a returned search that used its whole budget of calls: max_depth = 3,
\* two reflect_fn calls, and as many value_fn calls as agent_fn calls
C28_Witness ==
  /\ pc = "done"
  /\ self.max_depth = 3
  /\ calls.agent = AgentCallBudget(self)
  /\ calls.value = AgentCallBudget(self)
  /\ calls.reflect = 2
  /\ BackpropagationPasses = 1

\* ------------------------------------------------------------------------
\* Properties of the agent functions handed to the engines
\* ------------------------------------------------------------------------

\* C29: every call a search of run() makes through agent_fn, at depth 1 and
\* in reflection rounds, is run_scout(target) or run_strategy(analyst_result)
\* whatever reflect_fn returned: the prompt never reaches the agent.
C29_PromptDiscarded ==
  \A r \in 1..Len(runs) :
    \A call \in runs[r].agent_calls :
      \/ call.agent = "run_scout" /\ call.arg = <<"target">>
      \/ call.agent = "run_strategy" /\ call.arg = <<"analyst_result">>

\* a run in a reflection round of its strategy search, after both agents
\* were called through agent_fn
C29_Witness ==
  \E r \in 1..Len(runs) :
    /\ runs[r].pc = "search"
    /\ runs[r].stage = "STRATEGY"
    /\ runs[r].round >= 2
    /\ Cardinality(runs[r].agent_calls) = 2

\* ------------------------------------------------------------------------
\* Properties of a pipeline run whose job is evicted
\* ------------------------------------------------------------------------

\* C30: whatever cleanup evicts while run_real_pipeline is suspended at a
\* stage's await, no invocation ends by raising, a job an invocation found
\* gone is not in the store afterwards, and every key of _locks is a key of
\* _jobs.
C30_EvictionIsClean ==
  /\ _locks \subseteq JobIds(_jobs)
  /\ \A i \in 1..Len(invocations) :
       /\ invocations[i].pc # "raised"
       /\ (invocations[i].why = "KeyError" =>
             ~ HasJob(_jobs, invocations[i].job_id))

====
